---------------------------- MODULE Spec2Model ----------------------------
(***************************************************************************)
(* A model of llsub (src/llsub/llsub.py): the SRTFile class and main().    *)
(*                                                                         *)
(* A Python str is a sequence of one-character strings.  The str methods   *)
(* the program calls (replace, split, strip, join) are operators that scan *)
(* the sequence the way CPython does: leftmost, non-overlapping matches.   *)
(* A subtitle track (pysubs2.SSAFile) is a sequence of cues, each a record *)
(* [start, end, text].                                                     *)
(***************************************************************************)
EXTENDS Integers, Sequences, FiniteSets, TLC

VARIABLES
    pc,                 \* position of the run
    input_file,         \* args.input_file / the path handed to SRTFile()
    file_path,          \* srt_file.file_path
    language,           \* srt_file.language
    subs,               \* srt_file.subs, the original track
    target_language,    \* args.target_language
    translate_only,     \* args.translate_only
    force,              \* args.force
    max_characters,     \* the limit handed to _create_text_blocks
    backend,            \* how the translation backend behaves in this run
    fs,                 \* the filesystem: path -> track, for the files that exist
    text_blocks,        \* generate_translated_subtitles: text_blocks
    translated_blocks,  \* generate_translated_subtitles: translated_blocks
    translated_events,  \* generate_translated_subtitles: translated_events
    translated_subs,    \* translated_srt_file.subs
    translated_from,    \* where translated_srt_file came from: "none", "file", "backend"
    merged_subs,        \* merged_srt_file.subs
    written,            \* the paths written during the run, in order
    backend_calls,      \* the texts handed to translator.translate, in order
    error,              \* the error the run ended with, "" for none
    exit_code,          \* the process's exit status, -1 while it runs
    forward_path,       \* resolver round trip: the path resolved to the other tag
    restored_path       \* resolver round trip: forward_path resolved back

vars == << pc, input_file, file_path, language, subs, target_language,
           translate_only, force, max_characters, backend, fs, text_blocks,
           translated_blocks, translated_events, translated_subs,
           translated_from, merged_subs, written, backend_calls, error,
           exit_code, forward_path, restored_path >>

argVars   == << input_file, target_language, translate_only, force,
                max_characters, backend >>
gtsVars   == << text_blocks, translated_blocks, translated_events >>
pathVars  == << forward_path, restored_path >>
srtVars   == << file_path, language, subs >>

---------------------------------------------------------------------------
(* Characters and strings                                                  *)

NL == "\n"
CR == "\r"
BS == "\\"

\* "\\N", the line-break marker inside a cue's text
MARKER == << BS, "N" >>
\* "--", the placeholder that stands for the marker during translation
PLACEHOLDER == << "-", "-" >>
\* "\n\n", the separator after every cue in a text block
SEPARATOR == << NL, NL >>
\* the characters str.strip() removes
Whitespace == { " ", NL, CR, "\t" }

\* s[i:] starts with sub
StartsWithAt(s, i, sub) ==
    /\ i + Len(sub) - 1 <= Len(s)
    /\ \A k \in 1..Len(sub) : s[i + k - 1] = sub[k]

EndsWith(s, sub) ==
    /\ Len(sub) <= Len(s)
    /\ StartsWithAt(s, Len(s) - Len(sub) + 1, sub)

RECURSIVE ReplaceFrom(_, _, _, _)
ReplaceFrom(s, i, old, new) ==
    IF i > Len(s) THEN << >>
    ELSE IF StartsWithAt(s, i, old)
         THEN new \o ReplaceFrom(s, i + Len(old), old, new)
         ELSE << s[i] >> \o ReplaceFrom(s, i + 1, old, new)

\* s.replace(old, new), old non-empty
Replace(s, old, new) == ReplaceFrom(s, 1, old, new)

RECURSIVE SplitFrom(_, _, _, _, _)
SplitFrom(s, i, sep, cur, acc) ==
    IF i > Len(s) THEN Append(acc, cur)
    ELSE IF StartsWithAt(s, i, sep)
         THEN SplitFrom(s, i + Len(sep), sep, << >>, Append(acc, cur))
         ELSE SplitFrom(s, i + 1, sep, Append(cur, s[i]), acc)

\* s.split(sep), sep non-empty: always at least one element
Split(s, sep) == SplitFrom(s, 1, sep, << >>, << >>)

RECURSIVE LStrip(_)
LStrip(s) ==
    IF s # << >> /\ Head(s) \in Whitespace THEN LStrip(Tail(s)) ELSE s

RECURSIVE RStrip(_)
RStrip(s) ==
    IF s # << >> /\ s[Len(s)] \in Whitespace
    THEN RStrip(SubSeq(s, 1, Len(s) - 1))
    ELSE s

\* s.strip()
Strip(s) == RStrip(LStrip(s))

RECURSIVE JoinFrom(_, _, _)
JoinFrom(sep, parts, i) ==
    IF i > Len(parts) THEN << >>
    ELSE IF i = Len(parts) THEN parts[i]
    ELSE parts[i] \o sep \o JoinFrom(sep, parts, i + 1)

\* sep.join(parts)
Join(sep, parts) == JoinFrom(sep, parts, 1)

\* line.strip() is empty
IsBlank(line) == Strip(line) = << >>

\* the sequences over S of at most n elements
SeqsUpTo(S, n) == UNION { [1..k -> S] : k \in 0..n }

\* the cue texts of a track, in order
Texts(track) == [i \in 1..Len(track) |-> track[i].text]

\* a track whose cue i has the text texts[i]; base shifts every timestamp
MakeTrack(texts, base) ==
    [i \in 1..Len(texts) |->
        [start |-> base + 10 * i, end |-> base + 10 * i + 5, text |-> texts[i]]]

---------------------------------------------------------------------------
(* File Identity Resolver                                                  *)

Lower == { "a", "b", "c", "d", "e", "f", "g", "h", "i", "j", "k", "l", "m",
           "n", "o", "p", "q", "r", "s", "t", "u", "v", "w", "x", "y", "z" }

DOT_SRT == << ".", "s", "r", "t" >>

\* str(None), what an f-string makes of the language of a synthesized SRTFile
NONE == << "N", "o", "n", "e" >>

\* re.search(r"\.([a-z]{2})\.srt$", file_path) matches
has_language(path) ==
    /\ Len(path) >= 7
    /\ EndsWith(path, DOT_SRT)
    /\ path[Len(path) - 6] = "."
    /\ path[Len(path) - 5] \in Lower
    /\ path[Len(path) - 4] \in Lower

\* match.group(1)
extract_language(path) == SubSeq(path, Len(path) - 5, Len(path) - 4)

\* f".{tag}.srt"
tag_suffix(tag) == << "." >> \o tag \o DOT_SRT

\* self.file_path.replace(f".{self.language}.srt", f".{target_language}.srt")
get_file_path_for_language(path, lang, target) ==
    Replace(path, tag_suffix(lang), tag_suffix(target))

\* f"{srt_file.language}-{target_language}"
language_id(lang, target) == lang \o << "-" >> \o target

\* the existence check answers no whatever the files are
exists_never(path) == FALSE

\* os.path.exists(path)
exists(path) == path \in DOMAIN fs

---------------------------------------------------------------------------
(* Text Block Batcher, Translation Client Adapter, Cue Reconstructor       *)

\* len(current_text_block) + len(event.text) < max_characters
fits(current_text_block, text, M) == Len(current_text_block) + Len(text) < M

\* the running block is dropped, not appended
flush_block_lost(blocks, current_text_block) == blocks

\* text_blocks.append(current_text_block), in the loop
flush_block(blocks, current_text_block) == Append(blocks, current_text_block)

RECURSIVE create_text_blocks_loop(_, _, _, _, _)
create_text_blocks_loop(track, i, M, blocks, current_text_block) ==
    IF i > Len(track) THEN Append(blocks, current_text_block)
    ELSE IF fits(current_text_block, track[i].text, M)
         THEN create_text_blocks_loop(track, i + 1, M, blocks,
                  current_text_block \o track[i].text \o SEPARATOR)
         ELSE create_text_blocks_loop(track, i + 1, M,
                  flush_block(blocks, current_text_block),
                  track[i].text \o SEPARATOR)

\* self._create_text_blocks(max_characters)
create_text_blocks(track, M) == create_text_blocks_loop(track, 1, M, << >>, << >>)

\* translator.translate(text=...) for a backend that answers: "identity"
\* returns the text as it is, "strip" returns it without the whitespace
\* around it
translate(kind, text) == IF kind = "strip" THEN Strip(text) ELSE text

\* text_block.replace("\\N", "--")
text_block_temp(text_block) == Replace(text_block, MARKER, PLACEHOLDER)

\* translated_text_temp.replace("--", "\\N")
restore_marker(translated_text_temp) ==
    Replace(translated_text_temp, PLACEHOLDER, MARKER)

\* self._translate_text_blocks(text_blocks, target_language), no call failing
translate_text_blocks(blocks, kind) ==
    [i \in 1..Len(blocks) |->
        restore_marker(translate(kind, text_block_temp(blocks[i])))]

\* "\n\n".join(translated_blocks).strip().split("\n\n")
split_events(blocks) == Split(Strip(Join(SEPARATOR, blocks)), SEPARATOR)

---------------------------------------------------------------------------
(* Bilingual Merger                                                        *)

\* "\r\n\r\n", the break pysubs2 writes as an extra blank line
GAP == << CR, NL, CR, NL >>

\* original_event.text.split("\\N")
original_lines(text) == Split(text, MARKER)

RECURSIVE non_blank(_)
non_blank(lines) ==
    IF lines = << >> THEN << >>
    ELSE IF IsBlank(Head(lines)) THEN non_blank(Tail(lines))
    ELSE << Head(lines) >> \o non_blank(Tail(lines))

\* [line for line in translated_event.text.split("\\N") if line.strip()]
translated_lines(text) == non_blank(Split(text, MARKER))

\* the translated line first, the original line in the parentheses
interleaved_pair_swapped(original_line, translated_line) ==
    translated_line \o << NL, "(" >> \o original_line \o << ")" >> \o GAP

\* f"{original_line}\n({translated_line})\r\n\r\n"
interleaved_pair(original_line, translated_line) ==
    original_line \o << NL, "(" >> \o translated_line \o << ")" >> \o GAP

RECURSIVE interleave_from(_, _, _)
interleave_from(olines, tlines, k) ==
    IF k > Len(olines) THEN << >>
    ELSE interleaved_pair(olines[k], tlines[k])
             \o interleave_from(olines, tlines, k + 1)

\* the lines are matched when both texts have as many of them
lines_matched(olines, tlines) == Len(olines) = Len(tlines)

\* final_interleaved_text of one original/translated cue pair
final_interleaved_text(original_text, translated_text) ==
    LET olines == original_lines(original_text)
        tlines == translated_lines(translated_text)
    IN  IF lines_matched(olines, tlines)
        THEN interleave_from(olines, tlines, 1)
        ELSE Join(<< NL >>, olines) \o GAP
                 \o Join(<< NL >>,
                         [k \in 1..Len(tlines) |-> << "(" >> \o tlines[k] \o << ")" >>])

\* merged_event: the timing of the original cue, the interleaved text
\* assigned to its plaintext
merged_event(original_event, translated_event) ==
    [start |-> original_event.start,
     end   |-> original_event.end,
     plaintext |-> final_interleaved_text(original_event.text,
                                          translated_event.text)]

\* self._create_merged_ssa_file(translated_srt_file): zip() pairs the cues;
\* strict=True cannot raise, generate_merged_subtitles has compared the counts
create_merged_ssa_file(original, translated) ==
    [i \in 1..(IF Len(original) <= Len(translated)
               THEN Len(original) ELSE Len(translated)) |->
        merged_event(original[i], translated[i])]

\* a translated track with cues to spare passes
merge_compatible_lenient(original, translated) ==
    Len(original) <= Len(translated)

\* len(self.subs) != len(translated_srt_file.subs) does not hold
merge_compatible(original, translated) == Len(original) = Len(translated)

---------------------------------------------------------------------------
(* Paths of the run                                                        *)

\* srt_file.get_file_path_for_language(target_language)
translated_file_path ==
    get_file_path_for_language(file_path, language, target_language)

\* srt_file.get_file_path_for_language(language_id)
dual_lang_file_path ==
    get_file_path_for_language(file_path, language,
                               language_id(language, target_language))

\* SRTFile.save of a synthesized SRTFile (its language is None) whose
\* file_path is path
save_path(path, tag) == get_file_path_for_language(path, NONE, tag)

\* the run ends with an error: sys.exit(1), or an uncaught exception
Exit1(kind) ==
    /\ pc' = "done"
    /\ error' = kind
    /\ exit_code' = 1

---------------------------------------------------------------------------
(* generate_translated_subtitles, step by step                             *)

\* text_blocks = self._create_text_blocks(max_characters)
CreateBlocks ==
    /\ pc = "gts_blocks"
    /\ text_blocks' = create_text_blocks(subs, max_characters)
    /\ pc' = "gts_translate"
    /\ UNCHANGED << argVars, srtVars, pathVars, fs, translated_blocks,
                    translated_events, translated_subs, translated_from,
                    merged_subs, written, backend_calls, error, exit_code >>

\* translated_blocks = self._translate_text_blocks(text_blocks, target_language):
\* one backend call per block, in order; a failing call is not caught
TranslateBlocks ==
    /\ pc = "gts_translate"
    /\ IF backend = "fail"
       THEN /\ backend_calls' =
                   Append(backend_calls, text_block_temp(text_blocks[1]))
            /\ Exit1("BackendError")
            /\ UNCHANGED translated_blocks
       ELSE /\ backend_calls' = backend_calls \o
                   [i \in 1..Len(text_blocks) |-> text_block_temp(text_blocks[i])]
            /\ translated_blocks' = translate_text_blocks(text_blocks, backend)
            /\ pc' = "gts_events"
            /\ UNCHANGED << error, exit_code >>
    /\ UNCHANGED << argVars, srtVars, pathVars, fs, text_blocks,
                    translated_events, translated_subs, translated_from,
                    merged_subs, written >>

\* translated_events = "\n\n".join(translated_blocks).strip().split("\n\n")
SplitEvents ==
    /\ pc = "gts_events"
    /\ translated_events' = split_events(translated_blocks)
    /\ pc' = "gts_build"
    /\ UNCHANGED << argVars, srtVars, pathVars, fs, text_blocks,
                    translated_blocks, translated_subs, translated_from,
                    merged_subs, written, backend_calls, error, exit_code >>

\* one new event per original cue, text translated_events[i] (an IndexError
\* when there are fewer segments than cues), then translated_srt_file.save
BuildTranslated ==
    /\ pc = "gts_build"
    /\ IF Len(translated_events) < Len(subs)
       THEN /\ Exit1("IndexError")
            /\ UNCHANGED << fs, translated_subs, translated_from, written >>
       ELSE /\ translated_subs' =
                   [i \in 1..Len(subs) |->
                       [start |-> subs[i].start, end |-> subs[i].end,
                        text |-> translated_events[i]]]
            /\ translated_from' = "backend"
            /\ fs' = (save_path(translated_file_path, target_language)
                          :> translated_subs') @@ fs
            /\ written' = Append(written,
                                 save_path(translated_file_path, target_language))
            /\ pc' = "translated_ready"
            /\ UNCHANGED << error, exit_code >>
    /\ UNCHANGED << argVars, srtVars, pathVars, gtsVars, merged_subs,
                    backend_calls >>

---------------------------------------------------------------------------
(* main()                                                                  *)

\* srt_file = SRTFile(args.input_file): the language from the file name (a
\* ValueError nobody catches when it holds none), the track from the file
Construct ==
    /\ pc = "start"
    /\ IF has_language(input_file)
       THEN /\ file_path' = input_file
            /\ language' = extract_language(input_file)
            /\ subs' = fs[input_file]
            /\ pc' = "check_language"
            /\ UNCHANGED << error, exit_code >>
       ELSE /\ Exit1("ValueError")
            /\ UNCHANGED srtVars
    /\ UNCHANGED << argVars, pathVars, gtsVars, fs, translated_subs,
                    translated_from, merged_subs, written, backend_calls >>

\* if srt_file.language == target_language: sys.exit(1)
CheckLanguage ==
    /\ pc = "check_language"
    /\ IF language = target_language
       THEN Exit1("SameLanguage")
       ELSE /\ pc' = "locate"
            /\ UNCHANGED << error, exit_code >>
    /\ UNCHANGED << argVars, srtVars, pathVars, gtsVars, fs, translated_subs,
                    translated_from, merged_subs, written, backend_calls >>

\* os.path.exists(translated_file_path): translated_srt_file is loaded
LoadTranslated ==
    /\ pc = "locate"
    /\ exists(translated_file_path)
    /\ translated_subs' = fs[translated_file_path]
    /\ translated_from' = "file"
    /\ pc' = "translated_ready"
    /\ UNCHANGED << argVars, srtVars, pathVars, gtsVars, fs, merged_subs,
                    written, backend_calls, error, exit_code >>

\* else: srt_file.generate_translated_subtitles(target_language)
GenerateTranslated ==
    /\ pc = "locate"
    /\ ~ exists(translated_file_path)
    /\ pc' = "gts_blocks"
    /\ UNCHANGED << argVars, srtVars, pathVars, gtsVars, fs, translated_subs,
                    translated_from, merged_subs, written, backend_calls,
                    error, exit_code >>

\* args.translate_only: main returns
TranslateOnly ==
    /\ pc = "translated_ready"
    /\ translate_only
    /\ pc' = "done"
    /\ exit_code' = 0
    /\ UNCHANGED << argVars, srtVars, pathVars, gtsVars, fs, translated_subs,
                    translated_from, merged_subs, written, backend_calls,
                    error >>

\* os.path.exists(dual_lang_file_path) and not args.force: sys.exit(1)
DualExists ==
    /\ pc = "translated_ready"
    /\ ~ translate_only
    /\ exists(dual_lang_file_path) /\ ~ force
    /\ Exit1("DualExists")
    /\ UNCHANGED << argVars, srtVars, pathVars, gtsVars, fs, translated_subs,
                    translated_from, merged_subs, written, backend_calls >>

\* srt_file.generate_merged_subtitles(translated_srt_file, language_id): the
\* ValueError of unequal cue counts is caught by main, which exits with 1;
\* otherwise the merged track is built and saved, and main returns
Merge ==
    /\ pc = "translated_ready"
    /\ ~ translate_only
    /\ ~ (exists(dual_lang_file_path) /\ ~ force)
    /\ IF ~ merge_compatible(subs, translated_subs)
       THEN /\ Exit1("MergeError")
            /\ UNCHANGED << fs, merged_subs, written >>
       ELSE /\ merged_subs' = create_merged_ssa_file(subs, translated_subs)
            /\ fs' = (save_path(dual_lang_file_path,
                                language_id(language, target_language))
                          :> merged_subs') @@ fs
            /\ written' = Append(written,
                                 save_path(dual_lang_file_path,
                                           language_id(language, target_language)))
            /\ pc' = "done"
            /\ exit_code' = 0
            /\ UNCHANGED error
    /\ UNCHANGED << argVars, srtVars, pathVars, gtsVars, translated_subs,
                    translated_from, backend_calls >>

---------------------------------------------------------------------------
(* The resolver applied there and back                                     *)

\* SRTFile(path).get_file_path_for_language(target_language)
ResolveForward ==
    /\ pc = "resolve"
    /\ forward_path' =
           get_file_path_for_language(file_path, language, target_language)
    /\ pc' = "resolve_back"
    /\ UNCHANGED << argVars, srtVars, gtsVars, fs, restored_path,
                    translated_subs, translated_from, merged_subs, written,
                    backend_calls, error, exit_code >>

\* SRTFile(forward_path).get_file_path_for_language(language): the SRTFile of
\* the resolved path extracts its own tag
ResolveBack ==
    /\ pc = "resolve_back"
    /\ has_language(forward_path)
    /\ restored_path' =
           get_file_path_for_language(
               forward_path, extract_language(forward_path), language)
    /\ pc' = "resolved"
    /\ UNCHANGED << argVars, srtVars, gtsVars, fs, forward_path,
                    translated_subs, translated_from, merged_subs, written,
                    backend_calls, error, exit_code >>

---------------------------------------------------------------------------
(* Bounds and inputs                                                       *)

\* cues of the original track of a run of main()
MaxMainCues == 2
\* cues of the track handed to generate_translated_subtitles
MaxCues == 3
\* the largest limit handed to _create_text_blocks
MaxChars == 6
\* cues of the tracks handed to generate_merged_subtitles
MaxMergeCues == 2
\* segments of a path's stem
MaxSegments == 2

\* max_characters = 5000  # Maximum characters for translation
MAX_CHARACTERS == 5000

EN == << "e", "n" >>
FR == << "f", "r" >>
DE == << "d", "e" >>

\* movie.en.srt and its siblings
INPUT_PATH == << "m" >> \o tag_suffix(EN)
FR_PATH == << "m" >> \o tag_suffix(FR)
DUAL_PATH == << "m" >> \o tag_suffix(language_id(EN, FR))
\* a file name that holds no language tag
UNTAGGED_PATH == << "m" >> \o DOT_SRT

NoFiles == [p \in {} |-> << >>]

\* a dual-language file left by an earlier run
OLD_DUAL == << [start |-> 0, end |-> 1, plaintext |-> << "o" >>] >>

MainTexts == { << "a" >>, << "a" >> \o MARKER \o << "b" >> }

\* the translated-language files a run of main() may find: any number of
\* cues, their timestamps not those of the original
CachedTracks ==
    { MakeTrack([i \in 1..k |-> << "x" >>], 1) : k \in 0..(MaxMainCues + 1) }

\* cue texts as pysubs2 may hand them over: empty, one line, two lines, with
\* the characters of the placeholder, ending in a raw newline
BatchTexts ==
    { << >>,
      << "a" >>,
      << "b", "b" >>,
      << "a" >> \o MARKER \o << "b" >>,
      << "a", "-", "-", "b" >>,
      << "a", NL >> }

MergeOriginalTexts ==
    { << >>,
      << "a" >>,
      << "a" >> \o MARKER \o << "b" >>,
      << "a" >> \o MARKER }

MergeTranslatedTexts ==
    { << >>,
      << "x" >>,
      << "x" >> \o MARKER \o << "y" >>,
      << "x" >> \o MARKER \o << " " >> \o MARKER \o << "y" >> }

RECURSIVE Flatten(_)
Flatten(parts) ==
    IF parts = << >> THEN << >> ELSE Head(parts) \o Flatten(Tail(parts))

PathLangs == { EN, FR, DE }
PathSegments == { << "m" >>, << "/" >>, tag_suffix(EN), tag_suffix(FR) }

\* <stem>.<lang>.srt
TaggedPaths ==
    { Flatten(stem) \o tag_suffix(lang) :
        stem \in SeqsUpTo(PathSegments, MaxSegments), lang \in PathLangs }

---------------------------------------------------------------------------
(* Specifications                                                          *)

\* nothing has run yet
Idle ==
    /\ text_blocks = << >>
    /\ translated_blocks = << >>
    /\ translated_events = << >>
    /\ merged_subs = << >>
    /\ written = << >>
    /\ backend_calls = << >>
    /\ error = ""
    /\ exit_code = -1
    /\ forward_path = << >>
    /\ restored_path = << >>

\* a run of main(): any arguments, any backend, any files beside the input
Init ==
    /\ pc = "start"
    /\ input_file \in { INPUT_PATH, UNTAGGED_PATH }
    /\ file_path = << >>
    /\ language = << >>
    /\ subs = << >>
    /\ target_language \in { EN, FR }
    /\ translate_only \in BOOLEAN
    /\ force \in BOOLEAN
    /\ max_characters = MAX_CHARACTERS
    /\ backend \in { "identity", "strip", "fail" }
    /\ \E original \in { MakeTrack(t, 0) : t \in SeqsUpTo(MainTexts, MaxMainCues) },
          cached \in { << >> } \cup { << t >> : t \in CachedTracks },
          dual \in BOOLEAN :
          fs = (input_file :> original)
               @@ (IF cached = << >> THEN NoFiles ELSE FR_PATH :> cached[1])
               @@ (IF dual THEN DUAL_PATH :> OLD_DUAL ELSE NoFiles)
    /\ translated_subs = << >>
    /\ translated_from = "none"
    /\ Idle

Next ==
    \/ Construct
    \/ CheckLanguage
    \/ LoadTranslated
    \/ GenerateTranslated
    \/ CreateBlocks
    \/ TranslateBlocks
    \/ SplitEvents
    \/ BuildTranslated
    \/ TranslateOnly
    \/ DualExists
    \/ Merge

Spec == Init /\ [][Next]_vars

\* generate_translated_subtitles on any track, with any limit, the backend
\* returning its input
InitBatch ==
    /\ pc = "gts_blocks"
    /\ input_file = INPUT_PATH
    /\ file_path = INPUT_PATH
    /\ language = EN
    /\ subs \in { MakeTrack(t, 0) : t \in SeqsUpTo(BatchTexts, MaxCues) }
    /\ target_language = FR
    /\ translate_only = TRUE
    /\ force = FALSE
    /\ max_characters \in 1..MaxChars
    /\ backend = "identity"
    /\ fs = (INPUT_PATH :> subs)
    /\ translated_subs = << >>
    /\ translated_from = "none"
    /\ Idle

NextBatch ==
    \/ CreateBlocks
    \/ TranslateBlocks
    \/ SplitEvents
    \/ BuildTranslated

SpecBatch == InitBatch /\ [][NextBatch]_vars

\* generate_merged_subtitles on any pair of tracks
InitMerge ==
    /\ pc = "translated_ready"
    /\ input_file = INPUT_PATH
    /\ file_path = INPUT_PATH
    /\ language = EN
    /\ subs \in { MakeTrack(t, 0) : t \in SeqsUpTo(MergeOriginalTexts, MaxMergeCues) }
    /\ target_language = FR
    /\ translate_only = FALSE
    /\ force = FALSE
    /\ max_characters = MAX_CHARACTERS
    /\ backend = "identity"
    /\ translated_subs \in
           { MakeTrack(t, 1) : t \in SeqsUpTo(MergeTranslatedTexts, MaxMergeCues) }
    /\ translated_from = "file"
    /\ fs = (INPUT_PATH :> subs) @@ (FR_PATH :> translated_subs)
    /\ Idle

NextMerge == Merge

SpecMerge == InitMerge /\ [][NextMerge]_vars

\* the resolver on any tagged path, to any tag and back
InitPath ==
    /\ pc = "resolve"
    /\ input_file \in TaggedPaths
    /\ file_path = input_file
    /\ language = extract_language(input_file)
    /\ subs = << >>
    /\ target_language \in PathLangs
    /\ translate_only = FALSE
    /\ force = FALSE
    /\ max_characters = MAX_CHARACTERS
    /\ backend = "identity"
    /\ fs = (input_file :> << >>)
    /\ translated_subs = << >>
    /\ translated_from = "none"
    /\ Idle

NextPath ==
    \/ ResolveForward
    \/ ResolveBack

SpecPath == InitPath /\ [][NextPath]_vars

---------------------------------------------------------------------------
(* Properties                                                              *)

Range(f) == { f[x] : x \in DOMAIN f }

\* _create_text_blocks has returned
BlocksMade == pc \in { "gts_translate", "gts_events", "gts_build",
                       "translated_ready", "done" }

\* _translate_text_blocks has returned
BlocksTranslated ==
    \/ pc \in { "gts_events", "gts_build", "translated_ready" }
    \/ pc = "done" /\ error # "BackendError"

\* the translated stream has been split into segments
EventsSplit ==
    \/ pc \in { "gts_build", "translated_ready" }
    \/ pc = "done" /\ error # "BackendError"

\* every cue text is one or more lowercase letters
PlainTexts ==
    \A i \in 1..Len(subs) :
        /\ subs[i].text # << >>
        /\ \A k \in 1..Len(subs[i].text) : subs[i].text[k] \in Lower

\* C1: with a backend that returns its input, for every track of N >= 1
\* cues, the segments recovered from the joined, stripped and split blocks
\* are exactly the N cue texts, in order.  Stated for the cue texts made of
\* letters alone (the claim says: for every sequence of cue texts), so that a
\* violation rests on the blocks and not on a character of the text.
C1_SegmentsAreCueTexts ==
    (EventsSplit /\ backend = "identity" /\ Len(subs) >= 1 /\ PlainTexts)
        => translated_events = Texts(subs)

RECURSIVE DropTrailingEmpty(_)
DropTrailingEmpty(parts) ==
    IF parts # << >> /\ parts[Len(parts)] = << >>
    THEN DropTrailingEmpty(SubSeq(parts, 1, Len(parts) - 1))
    ELSE parts

\* the blocks concatenated, split on the separator, trailing empty elements
\* discarded
BlocksSplitBack == DropTrailingEmpty(Split(Flatten(text_blocks), SEPARATOR))

\* C2, as claimed: for every track and every limit, the blocks concatenated
\* and split back are exactly the cue texts, in order.
C2_RoundTripAnyTexts ==
    BlocksMade => BlocksSplitBack = Texts(subs)

\* no cue text holds a newline, and the last cue's text is not empty
SplittableTexts ==
    /\ \A i \in 1..Len(subs) : NL \notin Range(subs[i].text)
    /\ Len(subs) >= 1 => subs[Len(subs)].text # << >>

\* C2, amended: for every track whose cue texts hold no newline and whose
\* last cue text is not empty, and every limit, the blocks concatenated and
\* split back are exactly the cue texts, in order.
C2_RoundTrip ==
    (BlocksMade /\ SplittableTexts) => BlocksSplitBack = Texts(subs)

\* three cues, one of them empty, over several blocks, split back
C2_Witness ==
    /\ BlocksMade
    /\ SplittableTexts
    /\ Len(subs) = 3
    /\ subs[2].text = << >>
    /\ Len(text_blocks) >= 2

\* C3: when every cue text is shorter than the limit, no block, separators
\* included, is longer than the limit (the claim says: stays under it).
C3_BlocksWithinLimit ==
    (BlocksMade /\ \A i \in 1..Len(subs) : Len(subs[i].text) < max_characters)
        => \A b \in 1..Len(text_blocks) : Len(text_blocks[b]) <= max_characters

\* the texts of cues lo..hi, each followed by the separator
CuesBlock(lo, hi) ==
    Flatten([k \in 1..(hi - lo + 1) |-> subs[lo + k - 1].text \o SEPARATOR])

\* C10: for every track of at least one cue and every limit, every block is
\* the texts of one or more consecutive cues, each followed by two newlines;
\* no block is empty.
C10_BlocksAreCueRuns ==
    (BlocksMade /\ Len(subs) >= 1)
        => \A b \in 1..Len(text_blocks) :
               /\ text_blocks[b] # << >>
               /\ \E lo \in 1..Len(subs), hi \in 1..Len(subs) :
                      lo <= hi /\ text_blocks[b] = CuesBlock(lo, hi)

\* C9: with a backend that returns its input, every translated block equals
\* the block it was made from, the blocks come back in the order of
\* submission, and the backend was called once per block.
C9_PlaceholderReversible ==
    (BlocksTranslated /\ backend = "identity")
        => /\ translated_blocks = text_blocks
           /\ Len(backend_calls) = Len(text_blocks)

\* C7: for every path <stem>.<lang>.srt and every two-letter tag, resolving
\* the path to the tag and the result back to <lang> restores exactly the
\* path.
C7_ResolverRoundTrip ==
    pc = "resolved" => restored_path = file_path

\* the dual-language file of the run's arguments exists and this run did not
\* write it: it was there when the run started
DualWasThere ==
    /\ has_language(file_path)
    /\ dual_lang_file_path \in DOMAIN fs
    /\ dual_lang_file_path \notin Range(written)

\* C4: when the dual-language file exists, --force is not given, the merge is
\* asked for and the languages differ, the run writes no file and ends with
\* a non-zero status.
C4_NothingWritten ==
    (DualWasThere /\ ~ force /\ ~ translate_only /\ language # target_language)
        => /\ written = << >>
           /\ pc = "done" => exit_code > 0

\* the translated-language file exists and this run did not write it: it was
\* there at the existence check
TranslatedWasThere ==
    /\ has_language(file_path)
    /\ language # target_language
    /\ translated_file_path \in DOMAIN fs
    /\ translated_file_path \notin Range(written)

\* C5: in a run that finds the translated-language file, the backend is never
\* called, the translated track is the one the file holds, and the merged
\* track is built from it.
C5_CacheSkipsBackend ==
    TranslatedWasThere
        => /\ backend_calls = << >>
           /\ pc \notin { "gts_blocks", "gts_translate", "gts_events",
                          "gts_build" }
           /\ (pc = "translated_ready" \/ (pc = "done" /\ error # "SameLanguage"))
                  => translated_subs = fs[translated_file_path]
           /\ (pc = "done" /\ exit_code = 0 /\ ~ translate_only)
                  => merged_subs =
                         create_merged_ssa_file(subs, fs[translated_file_path])

\* a run that found the file, merged it with the original and ended well
C5_Witness ==
    /\ TranslatedWasThere
    /\ pc = "done"
    /\ exit_code = 0
    /\ Len(merged_subs) = 2
    /\ backend # "fail"

\* generate_merged_subtitles was called and the run is over
MergeCalled ==
    /\ pc = "done"
    /\ translated_from # "none"
    /\ ~ translate_only
    /\ ~ (DualWasThere /\ ~ force)

\* C6: when the tracks handed to generate_merged_subtitles differ in cue
\* count, the run ends with status 1 and the merge error, no merged cue is
\* built and the dual-language file is not written; when the counts are
\* equal, the merged track has that many cues and cue i has the start and
\* end of original cue i.
C6_MergeCompatibility ==
    MergeCalled
        => IF Len(subs) # Len(translated_subs)
           THEN /\ exit_code = 1
                /\ error = "MergeError"
                /\ merged_subs = << >>
                /\ dual_lang_file_path \notin Range(written)
                /\ dual_lang_file_path \in DOMAIN fs
                       => fs[dual_lang_file_path] = OLD_DUAL
           ELSE /\ Len(merged_subs) = Len(subs)
                /\ \A i \in 1..Len(subs) :
                       /\ merged_subs[i].start = subs[i].start
                       /\ merged_subs[i].end = subs[i].end

\* a forced merge over an existing dual-language file, the cached track one
\* cue long
C6_Witness ==
    /\ MergeCalled
    /\ Len(subs) = 1
    /\ Len(translated_subs) = 2
    /\ force
    /\ dual_lang_file_path \in DOMAIN fs

\* the marker-split lines of a translated text that are not blank
NonBlankLines(text) ==
    SelectSeq(Split(text, MARKER),
              LAMBDA line : \E k \in 1..Len(line) : line[k] \notin Whitespace)

\* L groups: original line k, a newline, translated line k in parentheses,
\* a blank-line break
Groups(olines, tlines) ==
    Flatten([k \in 1..Len(olines) |->
                olines[k] \o << NL, "(" >> \o tlines[k]
                    \o << ")", CR, NL, CR, NL >>])

\* C8: for every cue pair whose original text has as many marker-split lines
\* as the translated text has non-blank ones, the merged text is exactly the
\* groups of the paired lines, in order.
C8_MatchedLinesInterleaved ==
    \A i \in 1..Len(merged_subs) :
        Len(Split(subs[i].text, MARKER)) = Len(NonBlankLines(translated_subs[i].text))
            => merged_subs[i].plaintext =
                   Groups(Split(subs[i].text, MARKER),
                          NonBlankLines(translated_subs[i].text))

\* a merged cue of two paired lines, a blank translated line discarded
C8_Witness ==
    /\ Len(merged_subs) >= 1
    /\ Len(Split(subs[1].text, MARKER)) = 2
    /\ Len(Split(translated_subs[1].text, MARKER)) = 3
    /\ Len(NonBlankLines(translated_subs[1].text)) = 2

=============================================================================
